---------------------------- MODULE Spec2Model ----------------------------
(***************************************************************************)
(* A model of the vexcl device vector (vector.hpp) and of the utilities it *)
(* calls (util.hpp): the partition table, the partitioning policy, the     *)
(* kernel cache and dispatch of expression assignments, and the bulk host  *)
(* transfers.                                                              *)
(*                                                                         *)
(* The module holds several specifications over one set of variables;     *)
(* each keeps the variables of the other components at their initial      *)
(* values:                                                                 *)
(*   SpecPart    partition_equally on unsigned 32-bit lengths              *)
(*   SpecScheme  partitioning_scheme::set / operator() and construction    *)
(*   Spec        expression assignment, one caller                         *)
(*   SpecMT      expression assignment, two concurrent callers             *)
(*   SpecXfer    write_data / read_data / copy                             *)
(*   SpecVec     construction, copy, move, swap and resize of vectors      *)
(*   SpecSpmv    assignment of a sparse matrix-vector product              *)
(*   SpecSeq     expression assignment followed by a copy to the host      *)
(***************************************************************************)
EXTENDS Integers, Sequences, FiniteSets, TLC

VARIABLES
    \* ---- partition_equally (util.hpp:96-112)
    pe_n,        \* argument n, an unsigned 32-bit value
    pe_m,        \* queue.size()
    pe_part,     \* the returned table (<<>> before the call)
    \* ---- partitioning_scheme (util.hpp:121-154)
    is_set,      \* static bool is_set
    pfun,        \* static function_type pfun ("empty" when default-constructed)
    set_outcome, \* what the last set() call did: "none", "installed", "warned"
    \* ---- vector objects (vector.hpp:525-528)
    vec,         \* VecIds -> [queue, part, buf, event]
    \* ---- the OpenCL runtime as the assignment sees it
    qctx,        \* Devices -> context of the device's queue (qctx)
    dev_wgsz,    \* Devices -> CL_KERNEL_WORK_GROUP_SIZE the device reports
    devq,        \* Devices -> sequence of kernel launches not yet completed
    \* ---- exdata<Expr> (vector.hpp:518-523, 578-585), per expression shape
    compiled,    \* Shapes -> Contexts -> bool
    kernel,      \* Shapes -> Contexts -> kernel handle (0: no kernel)
    wgsize,      \* Shapes -> Contexts -> work-group size (0: no entry)
    \* ---- callers of vector::operator=(const Expr&)
    callers,     \* the threads that issue assignments
    thr,         \* Threads -> position and locals of the current call
    ncalls,      \* assignments issued so far
    \* ---- what happened so far (history, read by no action)
    builds,      \* Shapes -> Contexts -> kernels compiled and put in the cache
    touched,     \* Shapes -> Contexts -> returned assignments over the context
    expected,    \* Shapes -> Contexts -> non-empty partitions of those
    launches,    \* Shapes -> Contexts -> kernel launches of those
    \* ---- bulk transfers of vec[1] (vector.hpp:454-513)
    mem,         \* buffer index -> contents of the device buffer buf[d]
    hin,         \* the host array that write_data reads
    hout,        \* the host array that read_data fills
    evdone,      \* the completion markers (cl::Event) that are complete
    nev,         \* markers created so far
    nxfers,      \* transfer calls issued so far
    xf           \* position and locals of the current transfer call

partVars == <<pe_n, pe_m, pe_part>>

schemeVars == <<is_set, pfun, set_outcome>>

envVars == <<qctx, dev_wgsz>>

cacheVars == <<compiled, kernel, wgsize>>

callVars == <<callers, thr, ncalls>>

histVars == <<builds, touched, expected, launches>>

asgVars == <<envVars, devq, cacheVars, callVars, histVars>>

xferVars == <<mem, hin, hout, evdone, nev, nxfers, xf>>

vars == <<partVars, schemeVars, vec, asgVars, xferVars>>

----------------------------------------------------------------------------
(***************************************************************************)
(* unsigned int (util.hpp:49) is 32 bits wide.  A value is kept as two     *)
(* 16-bit halves [hi, lo] so that arithmetic modulo 2^32 can be computed   *)
(* without leaving the range of the checker's integers.                    *)
(***************************************************************************)
UintHalf == 65536

U(h, l) == [hi |-> h, lo |-> l]

UFromNat(k) == U(k \div UintHalf, k % UintHalf)

UToNat(a) == a.hi * UintHalf + a.lo

UZero == U(0, 0)

\* a + b modulo 2^32
UAdd(a, b) ==
    LET l == a.lo + b.lo
        h == a.hi + b.hi + (l \div UintHalf)
    IN  U(h % UintHalf, l % UintHalf)

\* a - b modulo 2^32
USub(a, b) ==
    LET l == a.lo - b.lo
        borrow == IF l < 0 THEN 1 ELSE 0
        h == a.hi - b.hi - borrow
    IN  U(h % UintHalf, l % UintHalf)

ULess(a, b) == a.hi < b.hi \/ (a.hi = b.hi /\ a.lo < b.lo)

ULeq(a, b) == a = b \/ ULess(a, b)

UMin(a, b) == IF ULess(b, a) THEN b ELSE a

\* a / m and a % m for a small divisor m (0 < m < 2^15), by long division
UDivSmall(a, m) ==
    LET r == a.hi % m
    IN  U(a.hi \div m, (r * UintHalf + a.lo) \div m)

UModSmall(a, m) == ((a.hi % m) * UintHalf + a.lo) % m

(***************************************************************************)
(* alignup(n, m): n % m ? n - n % m + m : n, on unsigned int.              *)
(***************************************************************************)
DefaultAlign == 16

alignup(n, m) ==
    IF UModSmall(n, m) # 0
    THEN UAdd(USub(n, UFromNat(UModSmall(n, m))), UFromNat(m))
    ELSE n

(***************************************************************************)
(* partition_equally(n, queue) with m = queue.size().                      *)
(***************************************************************************)
RECURSIVE PartEqLoop(_, _, _, _, _)
PartEqLoop(n, m, chunk_size, i, part) ==
    IF i < m
    THEN PartEqLoop(n, m, chunk_size, i + 1,
             Append(part, UMin(n, UAdd(part[i + 1], chunk_size))))
    ELSE part

partition_equally(n, m) ==
    IF m > 1
    THEN PartEqLoop(n, m,
             alignup(UDivSmall(USub(UAdd(n, UFromNat(m)), UFromNat(1)), m),
                     DefaultAlign),
             0, <<UZero>>)
    ELSE IF m = 1 THEN <<UZero, n>> ELSE <<n>>

----------------------------------------------------------------------------
(***************************************************************************)
(* SpecPart: the lengths and device counts partition_equally is applied to *)
(***************************************************************************)
MaxDevices == 4

UHiSamples == {0, 1, 32767, 32768, 65535}

ULoSamples == {0, 1, 15, 16, 17, 31, 32, 33, 65519, 65520, 65535}

PartInit0 ==
    /\ pe_n = UZero
    /\ pe_m = 1
    /\ pe_part = <<>>

PartInit ==
    /\ pe_n \in {U(h, l) : h \in UHiSamples, l \in ULoSamples}
    /\ pe_m \in 1..MaxDevices
    /\ pe_part = <<>>

PartitionEquallyCall ==
    /\ pe_part = <<>>
    /\ pe_part' = partition_equally(pe_n, pe_m)
    /\ UNCHANGED <<pe_n, pe_m, schemeVars, vec, asgVars, xferVars>>

PartNext == PartitionEquallyCall

\* C3: partition_equally(n, queues) returns, for every unsigned 32-bit n and
\* every device count D >= 1, a table of D+1 offsets that is non-decreasing,
\* starts at 0 and ends at n; for D = 1 the table is exactly [0, n].
C3_PartitionTableValid ==
    pe_part # <<>> =>
        /\ Len(pe_part) = pe_m + 1
        /\ pe_part[1] = UZero
        /\ pe_part[pe_m + 1] = pe_n
        /\ \A i \in 1..pe_m : ULeq(pe_part[i], pe_part[i + 1])
        /\ (pe_m = 1 => pe_part = <<UZero, pe_n>>)

----------------------------------------------------------------------------
(***************************************************************************)
(* Devices, queues and vectors.  A command queue is identified with its    *)
(* device (one queue per device); a queue list is a sequence of distinct   *)
(* devices.                                                                *)
(***************************************************************************)
NDev == 2

Devices == 1..NDev

RECURSIVE QueueListsOfLen(_)
QueueListsOfLen(k) ==
    IF k = 0 THEN {<<>>}
    ELSE {Append(q, d) : q \in QueueListsOfLen(k - 1), d \in Devices}

IsInjective(q) == \A i, j \in 1..Len(q) : q[i] = q[j] => i = j

QueueLists ==
    {q \in UNION {QueueListsOfLen(k) : k \in 1..NDev} : IsInjective(q)}

MaxVecs == 2

VecIds == 1..MaxVecs

\* sizeof(T) of the element type of vector<T>
SizeofT == 4

\* vector(): all four members empty
EmptyVector == [queue |-> <<>>, part |-> <<>>, buf |-> <<>>, event |-> <<>>]

\* vector::size()
size(v) == IF v.part = <<>> THEN 0 ELSE v.part[Len(v.part)]

\* vector::nparts()
nparts(v) == Len(v.queue)

\* vector::part_size(d), d counted from 1
part_size(v, d) == v.part[d + 1] - v.part[d]

(***************************************************************************)
(* The partitioning functions a policy may hold.  partition_by_vector_perf *)
(* is declared in util.hpp:92 and defined outside the sources at hand: it  *)
(* weighs the devices by a measured run time, so for the same (n, queue)   *)
(* it may return any table whose cut points are multiples of the alignment *)
(* clamped to n.  user_head stands for a function installed by the program *)
(* (everything on the first device).                                       *)
(***************************************************************************)
PartFunctions == {"partition_by_vector_perf", "partition_equally", "user_head"}

UserPartFunctions == {"partition_equally", "user_head"}

IsTable(p, n, m) ==
    /\ Len(p) = m + 1
    /\ p[1] = 0
    /\ p[m + 1] = n
    /\ \A i \in 1..m : p[i] <= p[i + 1]

\* the cut points a weighted split may choose: aligned, or clamped to n
CutPoints(n) == {k \in 0..n : k % DefaultAlign = 0 \/ k = n}

RECURSIVE PerfPrefixes(_, _)
PerfPrefixes(n, k) ==
    IF k = 0 THEN {<<0>>}
    ELSE {q \in {Append(p, c) : p \in PerfPrefixes(n, k - 1),
                                c \in CutPoints(n)} : q[k] <= q[k + 1]}

partition_by_vector_perf(n, m) ==
    IF m = 1 THEN {<<0, n>>}
    ELSE {Append(p, n) : p \in PerfPrefixes(n, m - 1)}

partition_equally_nat(n, m) ==
    LET p == partition_equally(UFromNat(n), m)
    IN  [i \in 1..Len(p) |-> UToNat(p[i])]

user_head(n, m) == [i \in 1..(m + 1) |-> IF i = 1 THEN 0 ELSE n]

\* pfun(n, queue): the tables the function f may return
CallPfun(f, n, m) ==
    CASE f = "partition_by_vector_perf" -> partition_by_vector_perf(n, m)
      [] f = "partition_equally"        -> {partition_equally_nat(n, m)}
      [] f = "user_head"                -> {user_head(n, m)}

(***************************************************************************)
(* partitioning_scheme::set(f)                                             *)
(***************************************************************************)
SchemeSetAlways(f) ==
    /\ pfun' = f
    /\ is_set' = TRUE
    /\ set_outcome' = "installed"
    /\ UNCHANGED <<partVars, vec, asgVars, xferVars>>

SchemeSet(f) ==
    /\ IF ~is_set
       THEN /\ pfun' = f
            /\ is_set' = TRUE
            /\ set_outcome' = "installed"
       ELSE /\ set_outcome' = "warned"
            /\ UNCHANGED <<pfun, is_set>>
    /\ UNCHANGED <<partVars, vec, asgVars, xferVars>>

(***************************************************************************)
(* partitioning_scheme::operator()(n, queue): installs the default when no *)
(* function is set, then calls pfun.  The operator gives the values of     *)
(* (is_set', pfun') and the set of tables the call may return.             *)
(***************************************************************************)
SchemeUsePfun == IF ~is_set THEN "partition_by_vector_perf" ELSE pfun

(***************************************************************************)
(* allocate_buffers(flags, 0): one buffer of psize * sizeof(T) bytes per   *)
(* non-empty partition; a buffer is recorded by its capacity in bytes,     *)
(* 0 for the default-constructed (null) cl::Buffer.                        *)
(***************************************************************************)
allocate_buffers(queue, part) ==
    [d \in 1..Len(queue) |->
        IF part[d + 1] - part[d] # 0 THEN (part[d + 1] - part[d]) * SizeofT
        ELSE 0]

NullEvents(queue) == [d \in 1..Len(queue) |-> 0]

(***************************************************************************)
(* vector(queue, size, host = 0, flags): part(vex::partition(size, queue)),*)
(* buf(queue.size()), event(queue.size()); if (size) allocate_buffers.     *)
(***************************************************************************)
VecSizes == {0, 1, 16, 33, 40}

Construct(x, queue, n) ==
    /\ vec[x] = EmptyVector
    /\ \E p \in CallPfun(SchemeUsePfun, n, Len(queue)) :
          vec' = [vec EXCEPT ![x] =
                    [queue |-> queue,
                     part  |-> p,
                     buf   |-> IF n # 0 THEN allocate_buffers(queue, p)
                               ELSE [d \in 1..Len(queue) |-> 0],
                     event |-> NullEvents(queue)]]
    /\ pfun' = SchemeUsePfun
    /\ is_set' = TRUE
    /\ UNCHANGED <<partVars, set_outcome, asgVars, xferVars>>

\* ~vector(): the object goes out of scope
Destroy(x) ==
    /\ vec[x] # EmptyVector
    /\ vec' = [vec EXCEPT ![x] = EmptyVector]
    /\ UNCHANGED <<partVars, schemeVars, asgVars, xferVars>>

SchemeInit ==
    /\ is_set = FALSE
    /\ pfun = "empty"
    /\ set_outcome = "none"

VecInit == vec = [x \in VecIds |-> EmptyVector]

SchemeNext ==
    \/ \E f \in UserPartFunctions : SchemeSet(f)
    \/ \E x \in VecIds, queue \in QueueLists, n \in VecSizes :
          Construct(x, queue, n)
    \/ \E x \in VecIds : Destroy(x)

\* C4: once a partitioning function is active (after a first set call, or
\* after the default was installed at the first use of partition(n, queues)),
\* no step changes the active function: a later set call leaves is_set and
\* pfun as they are and reports a warning.
C4_PolicySetOnce ==
    [][is_set =>
         /\ is_set' /\ pfun' = pfun
         /\ (set_outcome' # set_outcome => set_outcome' = "warned")]_vars

\* C4 witness: a set call was rejected with a warning while the default,
\* installed at a first use, stayed active and a vector was built with it.
C4_Witness ==
    /\ is_set
    /\ set_outcome = "warned"
    /\ pfun = "partition_by_vector_perf"
    /\ \E x \in VecIds : vec[x] # EmptyVector
----------------------------------------------------------------------------
(***************************************************************************)
(* Bulk host transfers: write_data (lines 454-482), read_data (485-513)    *)
(* and the two copy functions (587-597), on the vector vec[1].  The host   *)
(* side is the array hin that writes read from and the array hout that     *)
(* reads store to; hostptr is the start of the array.  The calls are made  *)
(* with uevent = 0, so the markers are the vector's own event[d].          *)
(***************************************************************************)
MaxLen == 3

MaxXfers == 2

\* host arrays of n elements; the transfers never look at the values, so
\* arrays with pairwise distinct entries tell every misplaced element
HostVectors(n) == {[i \in 1..n |-> i], [i \in 1..n |-> n + 1 - i]}

Max(a, b) == IF a > b THEN a ELSE b

Min(a, b) == IF a < b THEN a ELSE b

\* size_t start = std::max(offset, part[d]); d counted from 1
xstart(v, offset, d) == Max(offset, v.part[d])

\* size_t stop = std::min(offset + size, part[d + 1]);
xstop(v, offset, sz, d) == Min(offset + sz, v.part[d + 1])

\* a host pointer that is hostptr + start - part[d]
TransferCmdLocalHost(kind, v, offset, sz, d, e) ==
    [kind  |-> kind,
     d     |-> d,
     boff  |-> SizeofT * (xstart(v, offset, d) - v.part[d]),
     bsize |-> SizeofT * (xstop(v, offset, sz, d) - xstart(v, offset, d)),
     hoff  |-> xstart(v, offset, d) - v.part[d],
     ev    |-> e]

\* queue[d].enqueueWriteBuffer / enqueueReadBuffer(buf[d], CL_FALSE,
\*     sizeof(T) * (start - part[d]), sizeof(T) * (stop - start),
\*     hostptr + start - offset, 0, &ev[d])
TransferCmd(kind, v, offset, sz, d, e) ==
    [kind  |-> kind,
     d     |-> d,
     boff  |-> SizeofT * (xstart(v, offset, d) - v.part[d]),
     bsize |-> SizeofT * (xstop(v, offset, sz, d) - xstart(v, offset, d)),
     hoff  |-> xstart(v, offset, d) - offset,
     ev    |-> e]

\* the first loop of write_data / read_data: the commands it enqueues, in
\* the order of the devices; the markers are numbered from ev0 + 1
RECURSIVE IssueLoop(_, _, _, _, _, _, _)
IssueLoop(kind, v, offset, sz, d, ev0, acc) ==
    IF d > Len(v.queue) THEN acc
    ELSE IF xstop(v, offset, sz, d) <= xstart(v, offset, d)
         THEN IssueLoop(kind, v, offset, sz, d + 1, ev0, acc)
         ELSE IssueLoop(kind, v, offset, sz, d + 1, ev0,
                  Append(acc, TransferCmd(kind, v, offset, sz, d,
                                          ev0 + Len(acc) + 1)))

CmdsOn(cmds, v, dev) == SelectSeq(cmds, LAMBDA c : v.queue[c.d] = dev)

EventOf(cmds, d, old) ==
    IF \E i \in 1..Len(cmds) : cmds[i].d = d
    THEN cmds[CHOOSE i \in 1..Len(cmds) : cmds[i].d = d].ev
    ELSE old

IdleXfer ==
    [pc |-> "idle", kind |-> "write", offset |-> 0, size |-> 0,
     blocking |-> FALSE, wd |-> 0, cmds |-> <<>>, waited |-> <<>>,
     prev |-> <<"none", 0, 0, FALSE>>]

\* what the call in xf was, for the call after it
CallTag(x) ==
    IF x.pc = "idle" THEN <<"none", 0, 0, FALSE>>
    ELSE <<x.kind, x.offset, x.size, x.blocking>>

\* write_data / read_data up to the end of the first loop
XferCall(kind, offset, sz, blocking) ==
    /\ xf.pc \in {"idle", "returned"}
    /\ nxfers < MaxXfers
    /\ nxfers' = nxfers + 1
    /\ LET v == vec[1]
           cmds == IF sz = 0 THEN <<>>
                   ELSE IssueLoop(kind, v, offset, sz, 1, nev, <<>>)
       IN  /\ devq' = [dev \in Devices |-> devq[dev] \o CmdsOn(cmds, v, dev)]
           /\ vec' = [vec EXCEPT ![1].event =
                        [d \in 1..Len(v.queue) |-> EventOf(cmds, d, v.event[d])]]
           /\ nev' = nev + Len(cmds)
           /\ xf' = [pc |-> IF sz # 0 /\ blocking THEN "wait" ELSE "returned",
                     kind |-> kind, offset |-> offset, size |-> sz,
                     blocking |-> blocking, wd |-> 1, cmds |-> cmds,
                     waited |-> <<>>, prev |-> CallTag(xf)]
    /\ UNCHANGED <<partVars, schemeVars, envVars, cacheVars, callVars,
                   histVars, mem, hin, hout, evdone>>

\* vector::write_data(offset, size, hostptr, blocking)
write_data(offset, sz, blocking) == XferCall("write", offset, sz, blocking)

\* vector::read_data(offset, size, hostptr, blocking)
read_data(offset, sz, blocking) == XferCall("read", offset, sz, blocking)

\* copy(hv, dv, blocking): dv.write_data(0, dv.size(), hv.data(), blocking)
CopyHostToDevice(blocking) == write_data(0, size(vec[1]), blocking)

\* copy(dv, hv, blocking): dv.read_data(0, dv.size(), hv.data(), blocking)
CopyDeviceToHost(blocking) == read_data(0, size(vec[1]), blocking)

\* a second loop that waits for the first device only
XferWaitFirst ==
    /\ xf.pc = "wait"
    /\ IF xf.wd > 1
       THEN xf' = [xf EXCEPT !.pc = "returned"]
       ELSE IF xstart(vec[1], xf.offset, xf.wd)
                 < xstop(vec[1], xf.offset, xf.size, xf.wd)
            THEN /\ vec[1].event[xf.wd] \in evdone
                 /\ xf' = [xf EXCEPT !.wd = @ + 1,
                                     !.waited = Append(@, vec[1].event[xf.wd])]
            ELSE xf' = [xf EXCEPT !.wd = @ + 1]
    /\ UNCHANGED <<partVars, schemeVars, vec, envVars, devq, cacheVars,
                   callVars, histVars, mem, hin, hout, evdone, nev, nxfers>>

\* a second loop that waits on the marker of every device
XferWaitAll ==
    /\ xf.pc = "wait"
    /\ IF xf.wd > Len(vec[1].queue)
       THEN xf' = [xf EXCEPT !.pc = "returned"]
       ELSE /\ vec[1].event[xf.wd] \in evdone \cup {0}
            /\ xf' = [xf EXCEPT !.wd = @ + 1,
                                !.waited = Append(@, vec[1].event[xf.wd])]
    /\ UNCHANGED <<partVars, schemeVars, vec, envVars, devq, cacheVars,
                   callVars, histVars, mem, hin, hout, evdone, nev, nxfers>>

\* the second loop (if (blocking) ...): one turn, or the return after it;
\* ev[d].wait() returns when the transfer the marker stands for is complete
XferWait ==
    /\ xf.pc = "wait"
    /\ IF xf.wd > Len(vec[1].queue)
       THEN xf' = [xf EXCEPT !.pc = "returned"]
       ELSE IF xstart(vec[1], xf.offset, xf.wd)
                 < xstop(vec[1], xf.offset, xf.size, xf.wd)
            THEN /\ vec[1].event[xf.wd] \in evdone
                 /\ xf' = [xf EXCEPT !.wd = @ + 1,
                                     !.waited = Append(@, vec[1].event[xf.wd])]
            ELSE xf' = [xf EXCEPT !.wd = @ + 1]
    /\ UNCHANGED <<partVars, schemeVars, vec, envVars, devq, cacheVars,
                   callVars, histVars, mem, hin, hout, evdone, nev, nxfers>>

\* the elements of buffer d that command c covers, counted from 1
CmdLocal(c) == {c.boff \div SizeofT + k : k \in 1..(c.bsize \div SizeofT)}

\* the host element that goes with local element i of command c
CmdHost(c, i) == c.hoff + (i - c.boff \div SizeofT)

\* a device that stores the host elements one place too far
DeviceWriteShifted(c) ==
    [mem EXCEPT ![c.d] =
        [i \in 1..Len(mem[c.d]) |->
            IF i \in CmdLocal(c) /\ i - 1 \in CmdLocal(c)
            THEN hin[CmdHost(c, i - 1)]
            ELSE mem[c.d][i]]]

\* the device runs a write command: host elements go to the buffer
DeviceWrite(c) ==
    [mem EXCEPT ![c.d] =
        [i \in 1..Len(mem[c.d]) |->
            IF i \in CmdLocal(c) THEN hin[CmdHost(c, i)] ELSE mem[c.d][i]]]

\* the device runs a read command: buffer elements go to the host
DeviceRead(c) ==
    [h \in 1..Len(hout) |->
        IF \E i \in CmdLocal(c) : CmdHost(c, i) = h
        THEN mem[c.d][CHOOSE i \in CmdLocal(c) : CmdHost(c, i) = h]
        ELSE hout[h]]

----------------------------------------------------------------------------
(***************************************************************************)
(* Expression assignment: vector::operator=(const Expr&), lines 345-424.   *)
(*                                                                         *)
(* exdata<Expr> holds three std::map keyed by cl_context, one triple per   *)
(* expression type (shape).  The code reads and writes them only through   *)
(* operator[], for which an absent key and a key holding the default value *)
(* (false, null kernel, 0) are the same; the maps are therefore functions  *)
(* over all contexts with those defaults.                                  *)
(*                                                                         *)
(* A call is a sequence of steps so that two callers can interleave; the   *)
(* maps are not locked by the code.  Concurrent access to a std::map is a  *)
(* data race; the steps below are the outcomes in which every single map   *)
(* access is atomic, which are among those a build can produce.            *)
(***************************************************************************)
Contexts == 1..NDev

\* The expression types (shapes) the program assigns.
Shapes == {"b + c", "b * c"}

\* The threads of the program.
Threads == {"T1", "T2"}

MaxCalls == 2

\* The maximum work-group sizes a device may report for a kernel.
WGLimits == {300, 2048}

\* The widths of a partition of a target vector.
PartWidths == {0, 16}

RECURSIVE TablesOver(_)
TablesOver(m) ==
    IF m = 0 THEN {<<0>>}
    ELSE {Append(p, p[Len(p)] + w) : p \in TablesOver(m - 1), w \in PartWidths}

\* The target vectors of an assignment: a queue list and a partition table.
TargetVectors ==
    UNION {{[queue |-> q, part |-> p, buf |-> allocate_buffers(q, p),
             event |-> NullEvents(q)] : p \in TablesOver(Len(q))} :
           q \in QueueLists}

(***************************************************************************)
(* kernel_workgroup_size(kernel, device): start from 1024 and halve while  *)
(* the value exceeds what a device of the list reports.                    *)
(***************************************************************************)
WGCeiling == 1024

RECURSIVE HalveTo(_, _)
HalveTo(wgsz, limit) ==
    IF wgsz > limit THEN HalveTo(wgsz \div 2, limit) ELSE wgsz

RECURSIVE WgsizeLoop(_, _, _)
WgsizeLoop(wgsz, device, i) ==
    IF i > Len(device) THEN wgsz
    ELSE WgsizeLoop(HalveTo(wgsz, dev_wgsz[device[i]]), device, i + 1)

kernel_workgroup_size(device) == WgsizeLoop(WGCeiling, device, 1)

\* form: "expr" for a call of operator=(const Expr&) made by the program,
\* or the form of the spmv_expression whose assignment makes the call;
\* mul: the devices on which a sparse multiply was launched
IdleCall ==
    [pc |-> "idle", id |-> 0, shape |-> "b + c", target |-> EmptyVector, q |-> 0, d |-> 0,
     launched |-> <<>>, tried |-> <<>>, failed |-> "none",
     form |-> "expr", mul |-> <<>>]

\* qctx(*q) of the queue the compile loop is at
CurCtx(t) == qctx[thr[t].target.queue[thr[t].q]]

Bump(f, s, c, k) == [f EXCEPT ![s][c] = @ + k]

CtxsOf(v) == {qctx[v.queue[i]] : i \in 1..Len(v.queue)}

NonEmptyOn(v, c) ==
    Cardinality({i \in 1..Len(v.queue) :
                    qctx[v.queue[i]] = c /\ v.part[i + 1] - v.part[i] # 0})

\* x = expr is called by thread t, for an expression of shape s
AssignBegin(t, s, v) ==
    /\ t \in callers
    /\ thr[t].pc \in {"idle", "returned", "raised"}
    /\ ncalls < MaxCalls
    /\ thr' = [thr EXCEPT ![t] =
                 [pc |-> "compile", id |-> ncalls + 1, shape |-> s,
                  target |-> v, q |-> 1, d |-> 0,
                  launched |-> <<>>, tried |-> <<>>, failed |-> "none",
                  form |-> "expr", mul |-> <<>>]]
    /\ ncalls' = ncalls + 1
    /\ UNCHANGED <<xferVars, partVars, schemeVars, vec, envVars, devq, cacheVars,
                   callers, histVars>>

\* the compile loop without the cache test: every queue's context is built
CompileCheckNoCache(t) ==
    /\ thr[t].pc = "compile"
    /\ IF thr[t].q > Len(thr[t].target.queue)
       THEN thr' = [thr EXCEPT ![t].pc = "dispatch", ![t].d = 1]
       ELSE thr' = [thr EXCEPT ![t].pc = "build"]
    /\ UNCHANGED <<xferVars, partVars, schemeVars, vec, envVars, devq, cacheVars,
                   callers, ncalls, histVars>>

\* lines 346-350: the loop head and if (!exdata<Expr>::compiled[context()])
CompileCheck(t) ==
    /\ thr[t].pc = "compile"
    /\ IF thr[t].q > Len(thr[t].target.queue)
       THEN thr' = [thr EXCEPT ![t].pc = "dispatch", ![t].d = 1]
       ELSE IF ~compiled[thr[t].shape][CurCtx(t)]
            THEN thr' = [thr EXCEPT ![t].pc = "build"]
            ELSE thr' = [thr EXCEPT ![t].q = @ + 1]
    /\ UNCHANGED <<xferVars, partVars, schemeVars, vec, envVars, devq, cacheVars,
                   callers, ncalls, histVars>>

\* a build failure that is swallowed: the loop goes on to the next queue
BuildSourcesSwallow(t) ==
    /\ thr[t].pc = "build"
    /\ \/ thr' = [thr EXCEPT ![t].pc = "kernel",
                             ![t].tried = Append(@, CurCtx(t))]
       \/ thr' = [thr EXCEPT ![t].pc = "compile", ![t].q = @ + 1,
                             ![t].tried = Append(@, CurCtx(t))]
    /\ UNCHANGED <<xferVars, partVars, schemeVars, vec, envVars, devq, cacheVars,
                   callers, ncalls, histVars>>

\* lines 351-388: the source is generated and build_sources(context, source)
\* is called; program.build may throw, and build_sources rethrows
\* (util.hpp:167-173).
BuildSources(t) ==
    /\ thr[t].pc = "build"
    /\ \/ thr' = [thr EXCEPT ![t].pc = "kernel",
                             ![t].tried = Append(@, CurCtx(t))]
       \/ thr' = [thr EXCEPT ![t].pc = "raised", ![t].failed = "build",
                             ![t].tried = Append(@, CurCtx(t))]
    /\ UNCHANGED <<xferVars, partVars, schemeVars, vec, envVars, devq, cacheVars,
                   callers, ncalls, histVars>>

\* A kernel handle is identified by the call and the loop turn that made it.
FreshKernel(t) == thr[t].id * (NDev + 1) + thr[t].q

\* line 390: exdata<Expr>::kernel[context()] = cl::Kernel(program, name);
\* the constructor may throw.
CreateKernel(t) ==
    /\ thr[t].pc = "kernel"
    /\ \/ /\ kernel' = [kernel EXCEPT ![thr[t].shape][CurCtx(t)] =
                           FreshKernel(t)]
          /\ builds' = Bump(builds, thr[t].shape, CurCtx(t), 1)
          /\ thr' = [thr EXCEPT ![t].pc = "mark"]
       \/ /\ thr' = [thr EXCEPT ![t].pc = "raised", ![t].failed = "kernel"]
          /\ UNCHANGED <<kernel, builds>>
    /\ UNCHANGED <<xferVars, partVars, schemeVars, vec, envVars, devq, compiled, wgsize,
                   callers, ncalls, touched, expected, launches>>

\* line 391: exdata<Expr>::compiled[context()] = true;
MarkCompiled(t) ==
    /\ thr[t].pc = "mark"
    /\ compiled' = [compiled EXCEPT ![thr[t].shape][CurCtx(t)] = TRUE]
    /\ thr' = [thr EXCEPT ![t].pc = "wgsize"]
    /\ UNCHANGED <<xferVars, partVars, schemeVars, vec, envVars, devq, kernel, wgsize,
                   callers, ncalls, histVars>>

\* lines 392-393: exdata<Expr>::wgsize[context()] =
\* kernel_workgroup_size(kernel, device), device = qdev(*q) of this queue;
\* getWorkGroupInfo may throw.
QueryWgsize(t) ==
    /\ thr[t].pc = "wgsize"
    /\ \/ /\ wgsize' = [wgsize EXCEPT ![thr[t].shape][CurCtx(t)] =
                           kernel_workgroup_size(
                               <<thr[t].target.queue[thr[t].q]>>)]
          /\ thr' = [thr EXCEPT ![t].pc = "compile", ![t].q = @ + 1]
       \/ /\ thr' = [thr EXCEPT ![t].pc = "raised", ![t].failed = "wgsize"]
          /\ UNCHANGED wgsize
    /\ UNCHANGED <<xferVars, partVars, schemeVars, vec, envVars, devq, compiled, kernel,
                   callers, ncalls, histVars>>

\* device.getInfo<CL_DEVICE_TYPE>() and <CL_DEVICE_MAX_COMPUTE_UNITS>()
\* (lines 402-404): the first device is the host CPU, the others are GPUs
DeviceType(dev) == IF dev = 1 THEN "CPU" ELSE "GPU"

ComputeUnits(dev) == 2 * dev

\* alignup<size_t>(n, m), util.hpp:77-81; n % 0 is undefined: with m = 0
\* the build either traps or comes out with 0
alignup_size_t(n, m) ==
    IF m = 0 THEN 0
    ELSE IF n % m # 0 THEN (n - (n % m)) + m ELSE n

\* lines 402-404: the global size of the launch on device dev
GSize(dev, psize, wg) ==
    IF DeviceType(dev) = "CPU" THEN alignup_size_t(psize, wg)
    ELSE ComputeUnits(dev) * wg * 4

\* the launch the dispatch loop enqueues on queue[d] (lines 406-419): the
\* kernel of the context with the arguments n = psize and res = buf[d], the
\* global size and the work-group size.  res is the index of the buffer
\* in mem when the target is the vector vec[1], whose contents are
\* followed, and 0 for a buffer of another vector.
Launch(t) ==
    LET dev == thr[t].target.queue[thr[t].d]
        c == qctx[dev]
    IN  [kind   |-> "kernel",
         shape  |-> thr[t].shape,
         kernel |-> kernel[thr[t].shape][c],
         psize  |-> part_size(thr[t].target, thr[t].d),
         res    |-> IF thr[t].target = vec[1] THEN thr[t].d ELSE 0,
         g_size |-> GSize(dev, part_size(thr[t].target, thr[t].d),
                          wgsize[thr[t].shape][c]),
         wgsize |-> wgsize[thr[t].shape][c]]

\* clEnqueueNDRangeKernel takes a launch of a kernel whose work-group size
\* is positive, within what the device reports for the kernel, and divides
\* a positive global size; it rejects any other, and cl.hpp then throws
LaunchAccepted(l, dev) ==
    /\ l.kernel # 0
    /\ l.wgsize > 0
    /\ l.wgsize <= dev_wgsz[dev]
    /\ l.g_size > 0
    /\ l.g_size % l.wgsize = 0

DispatchEnqueue(t) ==
    LET dev == thr[t].target.queue[thr[t].d]
    IN  IF LaunchAccepted(Launch(t), dev)
        THEN /\ devq' = [devq EXCEPT ![dev] = Append(@, Launch(t))]
             /\ thr' = [thr EXCEPT ![t].d = @ + 1,
                                   ![t].launched = Append(@, dev)]
             /\ UNCHANGED <<touched, expected, launches>>
        ELSE /\ \/ thr' = [thr EXCEPT ![t].pc = "raised",
                                      ![t].failed = "launch"]
                \/ /\ DeviceType(dev) = "CPU"
                   /\ Launch(t).wgsize = 0
                   /\ thr' = [thr EXCEPT ![t].pc = "raised",
                                         ![t].failed = "divide"]
             /\ UNCHANGED <<devq, touched, expected, launches>>

\* the launches of the call of t that went to a device of context c
LaunchedOn(t, c) ==
    Cardinality({i \in 1..Len(thr[t].launched) :
                    qctx[thr[t].launched[i]] = c})

DispatchReturn(t) ==
    /\ thr' = [thr EXCEPT ![t].pc = IF thr[t].form = "expr" THEN "returned"
                                    ELSE "mul"]
    /\ touched' = [s \in Shapes |-> [c \in Contexts |->
          IF s = thr[t].shape /\ c \in CtxsOf(thr[t].target)
          THEN touched[s][c] + 1 ELSE touched[s][c]]]
    /\ expected' = [s \in Shapes |-> [c \in Contexts |->
          IF s = thr[t].shape
          THEN expected[s][c] + NonEmptyOn(thr[t].target, c)
          ELSE expected[s][c]]]
    /\ launches' = [s \in Shapes |-> [c \in Contexts |->
          IF s = thr[t].shape
          THEN launches[s][c] + LaunchedOn(t, c)
          ELSE launches[s][c]]]
    /\ UNCHANGED devq

\* the dispatch loop without the test of the partition width
DispatchAll(t) ==
    /\ thr[t].pc = "dispatch"
    /\ IF thr[t].d > Len(thr[t].target.queue)
       THEN DispatchReturn(t)
       ELSE DispatchEnqueue(t)
    /\ UNCHANGED <<xferVars, partVars, schemeVars, vec, envVars, cacheVars,
                   callers, ncalls, builds>>

\* lines 397-423: one turn of the dispatch loop, or return *this after it.
\* enqueueNDRangeKernel does not wait for the launch.
Dispatch(t) ==
    /\ thr[t].pc = "dispatch"
    /\ IF thr[t].d > Len(thr[t].target.queue)
       THEN DispatchReturn(t)
       ELSE IF part_size(thr[t].target, thr[t].d) # 0
            THEN DispatchEnqueue(t)
            ELSE /\ thr' = [thr EXCEPT ![t].d = @ + 1]
                 /\ UNCHANGED <<devq, touched, expected, launches>>
    /\ UNCHANGED <<xferVars, partVars, schemeVars, vec, envVars, cacheVars,
                   callers, ncalls, builds>>

\* The values the kernel of shape s stores in res[idx]: they stand for the
\* values of the expression, which differ from every host value.
KernelValue(s, idx) == (IF s = "b + c" THEN 10 ELSE 20) + idx

\* lines 372-376 of the generated source: work-item gid stores res[idx] for
\* idx = gid, gid + get_global_size(0), ... below n
KernelCovers(n, g_size) ==
    {idx \in 0..(n - 1) :
        \E gid \in 0..(Min(g_size, n) - 1) : (idx - gid) % g_size = 0}

\* the launch c runs: the elements of its buffer that some work-item stores
KernelRun(c) ==
    [mem EXCEPT ![c.res] =
        [i \in 1..Len(mem[c.res]) |->
            IF i - 1 \in KernelCovers(c.psize, c.g_size)
            THEN KernelValue(c.shape, i - 1)
            ELSE mem[c.res][i]]]

\* The device completes the command at the head of its queue: commands of
\* one queue run in the order of their enqueueing.  A transfer moves its
\* elements and its marker becomes complete.
DeviceRun(dev) ==
    /\ devq[dev] # <<>>
    /\ devq' = [devq EXCEPT ![dev] = Tail(@)]
    /\ LET c == Head(devq[dev])
       IN  IF c.kind = "kernel"
           THEN /\ mem' = IF c.res # 0 THEN KernelRun(c) ELSE mem
                /\ UNCHANGED <<hout, evdone>>
           ELSE IF c.kind \in {"copy", "spmv"}
           THEN UNCHANGED <<mem, hout, evdone>>
           ELSE /\ mem' = IF c.kind = "write" THEN DeviceWrite(c) ELSE mem
                /\ hout' = IF c.kind = "read" THEN DeviceRead(c) ELSE hout
                /\ evdone' = evdone \cup {c.ev}
    /\ UNCHANGED <<partVars, schemeVars, vec, envVars, cacheVars, callVars,
                   histVars, hin, nev, nxfers, xf>>

ZeroCounts == [s \in Shapes |-> [c \in Contexts |-> 0]]

AsgInitWith(cs, qc, lim) ==
    /\ qctx = qc
    /\ dev_wgsz = lim
    /\ devq = [dev \in Devices |-> <<>>]
    /\ compiled = [s \in Shapes |-> [c \in Contexts |-> FALSE]]
    /\ kernel = ZeroCounts
    /\ wgsize = ZeroCounts
    /\ callers = cs
    /\ thr = [t \in Threads |-> IdleCall]
    /\ ncalls = 0
    /\ builds = ZeroCounts
    /\ touched = ZeroCounts
    /\ expected = ZeroCounts
    /\ launches = ZeroCounts

\* no assignment is ever issued
AsgInit0 ==
    AsgInitWith({}, [dev \in Devices |-> 1], [dev \in Devices |-> WGCeiling])

\* The ways the devices' queues share contexts, up to the names of the
\* contexts: the first device is in context 1, and a device is in a context
\* of an earlier device or in the next unused one.
ContextMaps ==
    {qc \in [Devices -> Contexts] :
        /\ qc[1] = 1
        /\ \A dev \in Devices \ {1} :
              \E e \in 1..(dev - 1) : qc[dev] <= qc[e] + 1}

AsgInit(cs) ==
    \E qc \in ContextMaps, lim \in [Devices -> WGLimits] :
        AsgInitWith(cs, qc, lim)

AsgNext ==
    \/ \E t \in Threads, s \in Shapes, v \in TargetVectors : AssignBegin(t, s, v)
    \/ \E t \in Threads : CompileCheck(t)
    \/ \E t \in Threads : BuildSources(t)
    \/ \E t \in Threads : CreateKernel(t)
    \/ \E t \in Threads : MarkCompiled(t)
    \/ \E t \in Threads : QueryWgsize(t)
    \/ \E t \in Threads : Dispatch(t)
    \/ \E dev \in Devices : DeviceRun(dev)

InCall(t) == thr[t].pc \notin {"idle", "returned", "raised"}

\* the devices of v that own a non-empty partition, in queue order
RECURSIVE NonEmptyDevsFrom(_, _)
NonEmptyDevsFrom(v, i) ==
    IF i > Len(v.queue) THEN <<>>
    ELSE IF v.part[i + 1] > v.part[i]
         THEN <<v.queue[i]>> \o NonEmptyDevsFrom(v, i + 1)
         ELSE NonEmptyDevsFrom(v, i + 1)

Count(seq, x) == Cardinality({i \in 1..Len(seq) : seq[i] = x})

\* C1: with a single caller, for every expression shape and context a
\* kernel is compiled into the cache at most once, exactly one has been
\* as soon as an assignment over that context has returned, and when no call
\* is in progress the launches enqueued for the pair are exactly the
\* non-empty partitions of the assignments that returned (every assignment
\* dispatches): two evaluations give one compilation and two dispatches.
C1_CompileOnceDispatchEach ==
    \A s \in Shapes, c \in Contexts :
        /\ builds[s][c] <= 1
        /\ (touched[s][c] >= 1 => builds[s][c] = 1 /\ compiled[s][c])
        /\ ((\A t \in callers : ~InCall(t)) => launches[s][c] = expected[s][c])

\* C1 witness: the same shape was assigned twice over the same context, with
\* one compilation and two dispatches.
C1_Witness ==
    \E s \in Shapes, c \in Contexts :
        /\ touched[s][c] = 2
        /\ builds[s][c] = 1
        /\ launches[s][c] = 2
        /\ thr["T1"].pc = "returned"

\* C2: with two concurrent callers, the compile-and-insert step of a
\* (shape, context) pair happens at most once.
C2_CompileAtMostOnce ==
    \A s \in Shapes, c \in Contexts : builds[s][c] <= 1

\* C5: an assignment that has returned has enqueued exactly one launch on
\* the queue of every device whose partition is non-empty and none for a
\* zero-width partition, and a turn of the dispatch loop (an enqueue, or the
\* return) is never held back by launches that have not completed.
C5_OneLaunchPerNonEmptyPartition ==
    \A t \in callers :
        /\ thr[t].pc = "returned" =>
              thr[t].launched = NonEmptyDevsFrom(thr[t].target, 1)
        /\ thr[t].pc = "dispatch" => ENABLED Dispatch(t)

\* C5 witness: an assignment over two devices, one with an empty partition,
\* has returned while its launch is still pending on the other device.
C5_Witness ==
    \E t \in callers :
        /\ thr[t].pc = "returned"
        /\ Len(thr[t].target.queue) = 2
        /\ Len(thr[t].launched) = 1
        /\ devq[thr[t].launched[1]] # <<>>

\* the dispatch loop of t is about to call the enqueue for partition d
AtEnqueue(t) ==
    /\ thr[t].pc = "dispatch"
    /\ thr[t].d <= Len(thr[t].target.queue)
    /\ part_size(thr[t].target, thr[t].d) # 0

\* C6: every launch that an assignment enqueues on a device uses a
\* work-group size that does not exceed the maximum that device reports for
\* the kernel (the claim's conclusion; the size is meant to be 1024 halved
\* down to that maximum).
C6_WorkGroupWithinDeviceLimit ==
    \A t \in callers :
        AtEnqueue(t) =>
            Launch(t).wgsize <= dev_wgsz[thr[t].target.queue[thr[t].d]]

\* C7: when build_sources fails, the assignment raises to its caller having
\* called build_sources once for that context (no retry) and having
\* enqueued no launch, the (shape, context) pair is not marked compiled, and
\* no launch is ever enqueued for a pair without a kernel from a successful
\* compilation: the dispatch loop is reached only with every context of the
\* target compiled.
C7_BuildFailureRaises ==
    /\ \A t \in callers :
          (thr[t].pc = "raised" /\ thr[t].failed = "build") =>
              /\ thr[t].launched = <<>>
              /\ ~compiled[thr[t].shape][CurCtx(t)]
              /\ Count(thr[t].tried, CurCtx(t)) = 1
    /\ \A t \in callers :
          thr[t].pc = "dispatch" =>
              \A c \in CtxsOf(thr[t].target) : compiled[thr[t].shape][c]
    /\ \A dev \in Devices : \A i \in 1..Len(devq[dev]) :
          /\ devq[dev][i].kernel # 0
          /\ builds[devq[dev][i].shape][qctx[dev]] >= 1

\* C7 witness: the build failed for the context of the second queue after
\* the context of the first queue had been compiled.
C7_Witness ==
    \E t \in callers :
        /\ thr[t].pc = "raised"
        /\ thr[t].failed = "build"
        /\ thr[t].q = 2
        /\ compiled[thr[t].shape][qctx[thr[t].target.queue[1]]]
        /\ \A dev \in Devices : devq[dev] = <<>>

\* the tables of a vector of n elements over m devices
RECURSIVE AllPrefixes(_, _)
AllPrefixes(n, k) ==
    IF k = 0 THEN {<<0>>}
    ELSE {q \in {Append(p, c) : p \in AllPrefixes(n, k - 1), c \in 0..n} :
            q[k] <= q[k + 1]}

AllTables(n, m) == {Append(p, n) : p \in AllPrefixes(n, m - 1)}

XferQueueLists == {[i \in 1..m |-> i] : m \in 1..NDev}

XferInit0 ==
    /\ mem = <<>>
    /\ hin = <<>>
    /\ hout = <<>>
    /\ evdone = {}
    /\ nev = 0
    /\ nxfers = 0
    /\ xf = IdleXfer

\* a vector of n <= MaxLen elements built over any table, its buffers not
\* yet written, and a host vector of the same length
XferInit ==
    /\ \E n \in 0..MaxLen, q \in XferQueueLists :
         \E p \in AllTables(n, Len(q)) :
            /\ vec = [x \in VecIds |->
                        IF x = 1
                        THEN [queue |-> q, part |-> p,
                              buf |-> allocate_buffers(q, p),
                              event |-> NullEvents(q)]
                        ELSE EmptyVector]
            /\ mem = [d \in 1..Len(q) |-> [i \in 1..(p[d + 1] - p[d]) |-> 0]]
            /\ hin \in HostVectors(n)
            /\ hout = [i \in 1..n |-> 0]
    /\ evdone = {}
    /\ nev = 0
    /\ nxfers = 0
    /\ xf = IdleXfer

XferNext ==
    \/ \E offset \in 0..MaxLen, sz \in 0..MaxLen, blocking \in BOOLEAN :
          /\ offset <= size(vec[1])
          /\ sz <= size(vec[1])
          /\ write_data(offset, sz, blocking)
    \/ \E offset \in 0..MaxLen, sz \in 0..MaxLen, blocking \in BOOLEAN :
          /\ offset <= size(vec[1])
          /\ sz <= size(vec[1])
          /\ read_data(offset, sz, blocking)
    \/ \E blocking \in BOOLEAN : CopyHostToDevice(blocking)
    \/ \E blocking \in BOOLEAN : CopyDeviceToHost(blocking)
    \/ XferWait
    \/ \E dev \in Devices : DeviceRun(dev)

\* global index g (from 0) lies in the range of the call and in the buffer
InRange(g) == xf.offset <= g /\ g < xf.offset + xf.size /\ g < size(vec[1])

\* device d owns global index g
Owns(d, g) == vec[1].part[d] <= g /\ g < vec[1].part[d + 1]

\* the global indices of the call's range that device d owns
RangeOn(d) == {g \in 0..(MaxLen - 1) : InRange(g) /\ Owns(d, g)}

CmdsFor(d) == {i \in 1..Len(xf.cmds) : xf.cmds[i].d = d}

\* C8: write_data and read_data issue exactly one transfer for every device
\* whose partition intersects [offset, offset + size) and none for another
\* device; the transfer for device d covers exactly the local elements
\* g - part[d] of the global indices g of the range that d owns, each paired
\* with host element g - offset, so every index of the range inside the
\* buffer is transferred once and no other element is touched.
C8_OneTransferPerIntersectingDevice ==
    xf.pc # "idle" =>
        /\ \A d \in 1..Len(vec[1].queue) :
              Cardinality(CmdsFor(d)) = IF RangeOn(d) # {} THEN 1 ELSE 0
        /\ \A i \in 1..Len(xf.cmds) :
              LET c == xf.cmds[i]
              IN  /\ c.kind = xf.kind
                  /\ CmdLocal(c) = {g - vec[1].part[c.d] + 1 : g \in RangeOn(c.d)}
                  /\ \A g \in RangeOn(c.d) :
                        CmdHost(c, g - vec[1].part[c.d] + 1) = g - xf.offset + 1

\* C8 witness: a read of a range that starts inside the first device's
\* partition and ends inside the second's issued two transfers.
C8_Witness ==
    /\ xf.pc # "idle"
    /\ xf.kind = "read"
    /\ xf.offset = 1
    /\ Len(xf.cmds) = 2
    /\ xf.cmds[1].hoff = 0
    /\ xf.cmds[2].hoff > 0

\* C9: after a blocking copy of the host vector v to the device vector and
\* then a blocking copy of the device vector to hostOut, hostOut = v,
\* whatever the partition table.
C9_RoundTrip ==
    (/\ xf.pc = "returned"
     /\ CallTag(xf) = <<"read", 0, size(vec[1]), TRUE>>
     /\ xf.prev = <<"write", 0, size(vec[1]), TRUE>>) => hout = hin

\* C9 witness: the round trip of a vector of MaxLen elements that are not
\* all equal, over two devices of which the first owns nothing.
C9_Witness ==
    /\ xf.pc = "returned"
    /\ CallTag(xf) = <<"read", 0, MaxLen, TRUE>>
    /\ xf.prev = <<"write", 0, MaxLen, TRUE>>
    /\ Len(vec[1].queue) = 2
    /\ vec[1].part[2] = 0
    /\ hin[1] # hin[MaxLen]
    /\ hout = hin

Markers(cmds) == {cmds[i].ev : i \in 1..Len(cmds)}

WaitedOn == {xf.waited[i] : i \in 1..Len(xf.waited)}

\* C10: a transfer call only ever waits on markers of transfers it issued
\* itself; with blocking = false it returns having waited on none, with
\* blocking = true it returns having waited on each of them, all complete.
C10_BlockingWaitsOnOwnMarkers ==
    /\ WaitedOn \subseteq Markers(xf.cmds)
    /\ xf.pc = "returned" =>
          IF xf.blocking
          THEN /\ WaitedOn = Markers(xf.cmds)
               /\ Markers(xf.cmds) \subseteq evdone
          ELSE xf.waited = <<>>

\* C10 witness: a blocking call that met one device has returned while a
\* transfer of an earlier non-blocking call is still pending on another.
C10_Witness ==
    /\ xf.pc = "returned"
    /\ xf.blocking
    /\ Len(xf.cmds) = 1
    /\ Len(xf.waited) = 1
    /\ \E dev \in Devices : devq[dev] # <<>>

----------------------------------------------------------------------------
(***************************************************************************)
(* y = e for an spmv_expression e (lines 426-432) evaluates e in an        *)
(* assign_spmv_context (541-575), which has one evaluator for a terminal   *)
(* (e is A * x) and one for a sum (e is l + A * x).  The sparse matrix and *)
(* its mul are defined outside the sources at hand; mul launches one       *)
(* multiply per device shard.                                              *)
(***************************************************************************)
SpmvForms == {"A * x", "l + A * x"}

\* eval<Expr, tag::terminal>, lines 564-573: the term is displayed; the call
\* of mul is commented out
AssignSpmvTerminal(t, v) ==
    /\ t \in callers
    /\ thr[t].pc \in {"idle", "returned", "raised"}
    /\ ncalls < MaxCalls
    /\ thr' = [thr EXCEPT ![t] =
                 [IdleCall EXCEPT !.pc = "returned", !.id = ncalls + 1,
                                  !.target = v, !.form = "A * x"]]
    /\ ncalls' = ncalls + 1
    /\ UNCHANGED <<xferVars, partVars, schemeVars, vec, envVars, devq,
                   cacheVars, callers, histVars>>

\* eval<Expr, tag::plus>, lines 551-561, first statement: ctx.v = left(term)
\* is an expression assignment of the left operand, of shape s
AssignSpmvPlus(t, s, v) ==
    /\ t \in callers
    /\ thr[t].pc \in {"idle", "returned", "raised"}
    /\ ncalls < MaxCalls
    /\ thr' = [thr EXCEPT ![t] =
                 [IdleCall EXCEPT !.pc = "compile", !.id = ncalls + 1,
                                  !.shape = s, !.target = v, !.q = 1,
                                  !.form = "l + A * x"]]
    /\ ncalls' = ncalls + 1
    /\ UNCHANGED <<xferVars, partVars, schemeVars, vec, envVars, devq,
                   cacheVars, callers, histVars>>

\* the multiply that mul launches on the shard of device dev
SpmvCmd(t, dev) == [kind |-> "spmv", id |-> thr[t].id]

\* eval<Expr, tag::plus>, second statement: right(term).mul(ctx.v)
SpmvMul(t) ==
    /\ thr[t].pc = "mul"
    /\ devq' = [dev \in Devices |->
                  IF \E d \in 1..Len(thr[t].target.queue) :
                        /\ thr[t].target.queue[d] = dev
                        /\ part_size(thr[t].target, d) # 0
                  THEN Append(devq[dev], SpmvCmd(t, dev))
                  ELSE devq[dev]]
    /\ thr' = [thr EXCEPT ![t].pc = "returned",
                          ![t].mul = NonEmptyDevsFrom(thr[t].target, 1)]
    /\ UNCHANGED <<xferVars, partVars, schemeVars, vec, envVars, cacheVars,
                   callers, ncalls, histVars>>

SpmvNext ==
    \/ AsgNext
    \/ \E t \in Threads, v \in TargetVectors : AssignSpmvTerminal(t, v)
    \/ \E t \in Threads, s \in Shapes, v \in TargetVectors :
          AssignSpmvPlus(t, s, v)
    \/ \E t \in Threads : SpmvMul(t)

\* C13: an assignment of a matrix-vector product, alone or with a vector
\* term added, to y has, when it returns, launched one sparse multiply on
\* every device that owns a non-empty partition of y.
C13_SpmvMultipliesEveryShard ==
    \A t \in callers :
        (thr[t].pc = "returned" /\ thr[t].form \in SpmvForms) =>
            thr[t].mul = NonEmptyDevsFrom(thr[t].target, 1)

\* C16: when the dispatch loop enqueues the launch for a non-empty partition,
\* the work-group size is positive and the global size is a positive
\* multiple of it: on a CPU device the partition width rounded up to the
\* next multiple of the work-group size, on any other device
\* compute units * work-group size * 4.
C16_GlobalSizeMultipleOfWorkGroup ==
    \A t \in callers :
        AtEnqueue(t) =>
            LET l == Launch(t)
                dev == thr[t].target.queue[thr[t].d]
            IN  /\ l.wgsize > 0
                /\ l.g_size > 0
                /\ l.g_size % l.wgsize = 0
                /\ IF DeviceType(dev) = "CPU"
                   THEN l.psize <= l.g_size /\ l.g_size < l.psize + l.wgsize
                   ELSE l.g_size = ComputeUnits(dev) * l.wgsize * 4

\* the call of t has marked (s, c) compiled and is about to query the
\* work-group size (between lines 391 and 392)
Recording(t, s, c) ==
    thr[t].pc = "wgsize" /\ thr[t].shape = s /\ CurCtx(t) = c

\* C18: a (shape, context) pair marked compiled, and not in the middle of
\* being recorded by a running call, has its kernel handle and its
\* work-group size recorded, also after a step of the compile path raised
\* an error.
C18_CompiledEntriesComplete ==
    \A s \in Shapes, c \in Contexts :
        (compiled[s][c] /\ \A t \in callers : ~Recording(t, s, c)) =>
            kernel[s][c] # 0 /\ wgsize[s][c] # 0

\* C15: while the program has installed no partitioning function (the active
\* one is the default installed at first use), the table of every vector
\* built over D queues is the equal split of its length over D devices.
C15_DefaultSplitIsEqual ==
    pfun = "partition_by_vector_perf" =>
        \A x \in VecIds :
            vec[x] # EmptyVector =>
                vec[x].part = partition_equally_nat(size(vec[x]), nparts(vec[x]))

----------------------------------------------------------------------------
(***************************************************************************)
(* A program of one host thread that works on the vector Z = vec[1] as     *)
(* the README does (lines 70-82): it may first copy host data to Z, then   *)
(* assigns expressions to Z, then copies Z to the host, with no            *)
(* synchronization of its own in between.                                  *)
(***************************************************************************)
SeqNext ==
    \/ \E blocking \in BOOLEAN :
          /\ ncalls = 0
          /\ CopyHostToDevice(blocking)
    \/ \E s \in Shapes :
          /\ xf.pc \in {"idle", "returned"}
          /\ xf.kind = "write"
          /\ AssignBegin("T1", s, vec[1])
    \/ CompileCheck("T1")
    \/ BuildSources("T1")
    \/ CreateKernel("T1")
    \/ MarkCompiled("T1")
    \/ QueryWgsize("T1")
    \/ Dispatch("T1")
    \/ \E blocking \in BOOLEAN :
          /\ thr["T1"].pc = "returned"
          /\ CopyDeviceToHost(blocking)
    \/ XferWait
    \/ \E dev \in Devices : DeviceRun(dev)

\* C14: when a blocking copy of Z to the host, issued after an expression
\* assignment to Z returned, has returned, the host array holds for every
\* partition the values that assignment produced.
C14_CopyAfterAssignReadsResult ==
    (/\ xf.pc = "returned"
     /\ CallTag(xf) = <<"read", 0, size(vec[1]), TRUE>>
     /\ thr["T1"].pc = "returned") =>
        \A d \in 1..Len(vec[1].queue) : \A i \in 1..part_size(vec[1], d) :
            hout[vec[1].part[d] + i] = KernelValue(thr["T1"].shape, i - 1)

\* C14 witness: Z of MaxLen elements lies on two devices, host data was sent
\* to it without waiting, an expression was assigned, and the blocking copy
\* has returned with the values of the expression.
C14_Witness ==
    /\ xf.pc = "returned"
    /\ CallTag(xf) = <<"read", 0, MaxLen, TRUE>>
    /\ xf.prev = <<"write", 0, MaxLen, FALSE>>
    /\ thr["T1"].pc = "returned"
    /\ Len(vec[1].queue) = 2
    /\ vec[1].part = <<0, 1, MaxLen>>
    /\ hout[1] = KernelValue(thr["T1"].shape, 0)
    /\ hout[MaxLen] = KernelValue(thr["T1"].shape, MaxLen - 2)

----------------------------------------------------------------------------
(***************************************************************************)
(* The life cycle of vectors (vector.hpp:168-245, 317-328) as one host     *)
(* thread drives it.  vec[x] = EmptyVector is the default-constructed      *)
(* vector().  A device-to-device copy is a command on the queue of the     *)
(* device, recorded with the capacities of the two buffers and the number  *)
(* of bytes; cl rejects a copy that leaves a buffer (or names the null     *)
(* buffer) at the enqueue, and the exception ends the loop.                *)
(***************************************************************************)
MaxPending == 1

\* a swap that forgets the completion markers
swapNoEvent(x, v) ==
    [vec EXCEPT ![x] = [vec[v] EXCEPT !.event = vec[x].event],
                ![v] = [vec[x] EXCEPT !.event = vec[v].event]]

\* swap(v), lines 212-217: the four members change places
swap(x, v) == [vec EXCEPT ![x] = vec[v], ![v] = vec[x]]

\* the arguments of queue[d].enqueueCopyBuffer(x.buf[d], buf[d], 0, 0,
\* psize * sizeof(T)) in a.operator=(x); x.buf[d] past the end of x.buf is
\* read as a null buffer
CopyCmd(a, x, d) ==
    [kind  |-> "copy",
     src   |-> IF d <= Len(x.buf) THEN x.buf[d] ELSE 0,
     dst   |-> a.buf[d],
     bytes |-> part_size(a, d) * SizeofT]

CopyAccepted(c) == c.src # 0 /\ c.bytes <= c.src /\ c.bytes <= c.dst

\* the partitions for which the loop of a.operator=(x) calls the enqueue
CopyTurns(a, x) == {d \in 1..Len(a.queue) : part_size(a, d) # 0}

\* the turns whose copy is enqueued: those before the first rejected one
CopiesDone(a, x) ==
    {d \in CopyTurns(a, x) :
        \A e \in CopyTurns(a, x) : e <= d => CopyAccepted(CopyCmd(a, x, e))}

\* a.operator=(x), lines 317-328, for two objects a and x
EnqueueCopies(a, x) ==
    [dev \in Devices |->
        IF \E d \in CopiesDone(a, x) : a.queue[d] = dev
        THEN Append(devq[dev],
                    CopyCmd(a, x, CHOOSE d \in CopiesDone(a, x) :
                                      a.queue[d] = dev))
        ELSE devq[dev]]

\* there is room in the queues of a for one more command each
RoomFor(a) ==
    \A d \in 1..Len(a.queue) : Len(devq[a.queue[d]]) < MaxPending

\* vector(queue, size, 0, flags) as a value: the members for the table p
NewVector(queue, n, p) ==
    [queue |-> queue,
     part  |-> p,
     buf   |-> IF n # 0 THEN allocate_buffers(queue, p)
               ELSE [d \in 1..Len(queue) |-> 0],
     event |-> NullEvents(queue)]

\* vector(const vector &v), lines 171-178, for a new object x
CopyConstruct(x, v) ==
    /\ x # v
    /\ vec[x] = EmptyVector
    /\ LET a == [queue |-> vec[v].queue,
                 part  |-> vec[v].part,
                 buf   |-> IF size(vec[v]) # 0
                           THEN allocate_buffers(vec[v].queue, vec[v].part)
                           ELSE [d \in 1..Len(vec[v].queue) |-> 0],
                 event |-> NullEvents(vec[v].queue)]
       IN  /\ RoomFor(a)
           /\ vec' = [vec EXCEPT ![x] = a]
           /\ devq' = EnqueueCopies(a, vec[v])
    /\ UNCHANGED <<partVars, schemeVars, envVars, cacheVars, callVars,
                   histVars, xferVars>>

\* vector(vector &&v), lines 200-203, for a new object x
MoveConstruct(x, v) ==
    /\ x # v
    /\ vec[x] = EmptyVector
    /\ vec' = swap(x, v)
    /\ UNCHANGED <<partVars, schemeVars, asgVars, xferVars>>

\* operator=(vector &&v), lines 205-209
MoveAssign(x, v) ==
    /\ x # v
    /\ vec' = swap(x, v)
    /\ UNCHANGED <<partVars, schemeVars, asgVars, xferVars>>

\* x.swap(v) called by the program
Swap(x, v) ==
    /\ x # v
    /\ vec' = swap(x, v)
    /\ UNCHANGED <<partVars, schemeVars, asgVars, xferVars>>

\* x = v, lines 317-328: the members of x stay as they are
CopyAssign(x, v) ==
    /\ x # v
    /\ vec[x].queue = vec[v].queue
    /\ vec[x].part = vec[v].part
    /\ RoomFor(vec[x])
    /\ devq' = EnqueueCopies(vec[x], vec[v])
    /\ UNCHANGED <<partVars, schemeVars, vec, envVars, cacheVars, callVars,
                   histVars, xferVars>>

\* x.resize(v), lines 219-227: *this = std::move(vector(v.queue, v.size(),
\* 0, flags)), the temporary leaves with the old members of x; *this = v
ResizeLike(x, v) ==
    /\ x # v
    /\ vec[v] # EmptyVector
    /\ \E p \in CallPfun(SchemeUsePfun, size(vec[v]), Len(vec[v].queue)) :
          LET a == NewVector(vec[v].queue, size(vec[v]), p)
          IN  /\ RoomFor(a)
              /\ vec' = [vec EXCEPT ![x] = a]
              /\ devq' = EnqueueCopies(a, vec[v])
    /\ pfun' = SchemeUsePfun
    /\ is_set' = TRUE
    /\ UNCHANGED <<partVars, set_outcome, envVars, cacheVars, callVars,
                   histVars, xferVars>>

\* x.resize(queue, size, 0, flags), lines 229-236
Resize(x, queue, n) ==
    /\ \E p \in CallPfun(SchemeUsePfun, n, Len(queue)) :
          vec' = [vec EXCEPT ![x] = NewVector(queue, n, p)]
    /\ pfun' = SchemeUsePfun
    /\ is_set' = TRUE
    /\ UNCHANGED <<partVars, set_outcome, asgVars, xferVars>>

\* the lengths the program gives its vectors
LifeSizes == {0, 16, 40}

VecNext ==
    \/ \E f \in UserPartFunctions : SchemeSet(f)
    \/ \E x, v \in VecIds : ResizeLike(x, v)
    \/ \E x \in VecIds, queue \in QueueLists, n \in LifeSizes :
          Construct(x, queue, n)
    \/ \E x, v \in VecIds : CopyConstruct(x, v)
    \/ \E x, v \in VecIds : MoveAssign(x, v)
    \/ \E x, v \in VecIds : MoveConstruct(x, v)
    \/ \E x, v \in VecIds : Swap(x, v)
    \/ \E x, v \in VecIds : CopyAssign(x, v)
    \/ \E x \in VecIds, queue \in QueueLists, n \in LifeSizes :
          Resize(x, queue, n)
    \/ \E x \in VecIds : Destroy(x)
    \/ \E dev \in Devices : DeviceRun(dev)

\* C17: a step x.resize(v) leaves x with the device list, the length and the
\* partition table of v, and every copy its loop asks for stays within the
\* capacity of the buffer it reads and of the buffer it writes, whichever
\* table the active partitioning function returns.
C17_ResizeLikeKeepsTable ==
    [][\A x, v \in VecIds :
          ResizeLike(x, v) =>
             /\ vec'[x].queue = vec[v].queue
             /\ size(vec'[x]) = size(vec[v])
             /\ vec'[x].part = vec[v].part
             /\ \A d \in CopyTurns(vec'[x], vec[v]) :
                   CopyAccepted(CopyCmd(vec'[x], vec[v], d))]_vars

\* C11: a move (move construction or move assignment) from v to a target
\* hands the device list, the partition table, the buffer handles and the
\* completion markers of v to the target, enqueues no copy, and leaves v
\* empty (no devices, size 0), whatever the target held before.
C11_MoveEmptiesSource ==
    [][\A x, v \in VecIds :
          (MoveConstruct(x, v) \/ MoveAssign(x, v)) =>
              /\ vec'[x] = vec[v]
              /\ devq' = devq
              /\ vec'[v] = EmptyVector
              /\ size(vec'[v]) = 0]_vars

\* the members of v fit together: as many buffers and markers as devices,
\* and buffer i holds part[i+1] - part[i] elements (none: the null buffer)
MembersFit(v) ==
    /\ Len(v.buf) = Len(v.queue)
    /\ Len(v.event) = Len(v.queue)
    /\ \A i \in 1..Len(v.queue) :
          v.buf[i] = (v.part[i + 1] - v.part[i]) * SizeofT

\* C12 as stated: every vector has as many buffer handles and completion
\* markers as devices, a partition table with one more entry than devices,
\* and buffer i has the capacity of part[i+1] - part[i] elements.
C12_MembersConsistent ==
    \A x \in VecIds :
        /\ Len(vec[x].part) = Len(vec[x].queue) + 1
        /\ MembersFit(vec[x])

\* C12 amended: a vector either is empty (default-constructed or moved
\* from: no devices, no buffers, no markers and an empty partition table)
\* or has a partition table with one more entry than devices; in both cases
\* buffers and markers are as many as devices and buffer i has the capacity
\* of part[i+1] - part[i] elements, with no allocation for a width of zero.
C12_MembersConsistentOrEmpty ==
    \A x \in VecIds :
        \/ vec[x] = EmptyVector
        \/ /\ Len(vec[x].part) = Len(vec[x].queue) + 1
           /\ MembersFit(vec[x])

\* C12 witness: a vector over two devices with a zero-width partition was
\* copied to a second vector of the same shape (the copy is pending).
C12_Witness ==
    \E x, v \in VecIds :
        /\ x # v
        /\ vec[x].queue = <<2, 1>>
        /\ vec[x].part = <<0, 16, 16>>
        /\ vec[x].buf = <<16 * SizeofT, 0>>
        /\ vec[v] = vec[x]
        /\ devq[2] # <<>>
        /\ devq[1] = <<>>

----------------------------------------------------------------------------
(***************************************************************************)
(* The specifications.                                                     *)
(***************************************************************************)
InitPart == PartInit /\ SchemeInit /\ VecInit /\ AsgInit0 /\ XferInit0

SpecPart == InitPart /\ [][PartNext]_vars

InitScheme == PartInit0 /\ SchemeInit /\ VecInit /\ AsgInit0 /\ XferInit0

SpecScheme == InitScheme /\ [][SchemeNext]_vars

\* one caller
Init == PartInit0 /\ SchemeInit /\ VecInit /\ AsgInit({"T1"}) /\ XferInit0

Next == AsgNext

Spec == Init /\ [][Next]_vars

\* two concurrent callers
InitMT ==
    /\ PartInit0 /\ SchemeInit /\ VecInit
    /\ AsgInitWith(Threads, [dev \in Devices |-> 1],
                   [dev \in Devices |-> IF dev = 1 THEN 2048 ELSE 300])
    /\ XferInit0

\* bulk transfers
InitXfer == PartInit0 /\ SchemeInit /\ AsgInit0 /\ XferInit

SpecXfer == InitXfer /\ [][XferNext]_vars

SpecMT == InitMT /\ [][AsgNext]_vars

\* assignments of sparse matrix-vector products, one caller
SpecSpmv == Init /\ [][SpmvNext]_vars

\* assignment to a vector, then copy to the host
InitSeq == PartInit0 /\ SchemeInit /\ AsgInit({"T1"}) /\ XferInit

SpecSeq == InitSeq /\ [][SeqNext]_vars

\* the life cycle of vectors
InitVec == PartInit0 /\ SchemeInit /\ VecInit /\ AsgInit0 /\ XferInit0

SpecVec == InitVec /\ [][VecNext]_vars

=============================================================================
